---- MODULE Spec2Model ----
(***************************************************************************)
(* Model of the Chzzk plugin of streamlink (src/streamlink/plugins/        *)
(* chzzk.py): the token-aware HLS stream (ChzzkHLSStream), its playlist    *)
(* worker (ChzzkHLSStreamWorker), the API client (ChzzkAPI) and the        *)
(* plugin's resolutions; and of the resolution of the AfreecaTV plugin     *)
(* (src/streamlink/plugins/afreeca.py).                                    *)
(*                                                                         *)
(* Strings are sequences of one-character strings, so that str.split,      *)
(* str.replace and the regular expression exp=(\d+) are computed the way   *)
(* Python computes them.                                                   *)
(***************************************************************************)
EXTENDS Integers, Sequences, FiniteSets, TLC

\* ------------------------------------------------------------------------
\* Strings
\* ------------------------------------------------------------------------

Digits == {"0", "1", "2", "3", "4", "5", "6", "7", "8", "9"}

DigitVal(c) ==
    CASE c = "0" -> 0 [] c = "1" -> 1 [] c = "2" -> 2 [] c = "3" -> 3
      [] c = "4" -> 4 [] c = "5" -> 5 [] c = "6" -> 6 [] c = "7" -> 7
      [] c = "8" -> 8 [] c = "9" -> 9

\* s.startswith(p, i-1)
StartsAt(s, p, i) ==
    /\ i + Len(p) - 1 <= Len(s)
    /\ SubSeq(s, i, i + Len(p) - 1) = p

\* str.split("/"): the segments between the separators, empty ones included
RECURSIVE SplitFrom(_, _, _)
SplitFrom(s, i, cur) ==
    IF i > Len(s) THEN <<cur>>
    ELSE IF s[i] = "/" THEN <<cur>> \o SplitFrom(s, i + 1, <<>>)
    ELSE SplitFrom(s, i + 1, Append(cur, s[i]))

Split(s) == SplitFrom(s, 1, <<>>)

\* str.replace(old, new): every non-overlapping occurrence, left to right;
\* an empty old matches before every character and at the end
RECURSIVE ReplaceFrom(_, _, _, _)
ReplaceFrom(s, old, new, i) ==
    IF i > Len(s) THEN <<>>
    ELSE IF StartsAt(s, old, i)
         THEN new \o ReplaceFrom(s, old, new, i + Len(old))
         ELSE <<s[i]>> \o ReplaceFrom(s, old, new, i + 1)

RECURSIVE Interleave(_, _, _)
Interleave(s, new, i) ==
    IF i > Len(s) THEN new
    ELSE new \o <<s[i]>> \o Interleave(s, new, i + 1)

Replace(s, old, new) ==
    IF old = <<>> THEN Interleave(s, new, 1) ELSE ReplaceFrom(s, old, new, 1)

\* ------------------------------------------------------------------------
\* ChzzkHLSStream: token and expiry
\* ------------------------------------------------------------------------

\* _REFRESH_BEFORE = 3 * 60 * 60
REFRESH_BEFORE == 10800

NoExpire == -1

ExpPrefix == <<"e", "x", "p", "=">>

\* the pattern exp=(\d): one digit only
DigitRunOne(s, i, acc) ==
    IF i <= Len(s) /\ s[i] \in Digits THEN 10 * acc + DigitVal(s[i]) ELSE acc

\* int() of the longest run of digits that starts at position i
RECURSIVE DigitRun(_, _, _)
DigitRun(s, i, acc) ==
    IF i <= Len(s) /\ s[i] \in Digits
    THEN DigitRun(s, i + 1, 10 * acc + DigitVal(s[i]))
    ELSE acc

\* _EXPIRE.search(s): the leftmost position where exp= is followed by a digit
RECURSIVE ExpireFrom(_, _)
ExpireFrom(s, i) ==
    IF i > Len(s) THEN NoExpire
    ELSE IF /\ StartsAt(s, ExpPrefix, i)
            /\ i + 4 <= Len(s)
            /\ s[i + 4] \in Digits
         THEN DigitRun(s, i + 4, 0)
         ELSE ExpireFrom(s, i + 1)

\* the _expire property: the integer, or NoExpire for None
Expire(u) == ExpireFrom(u, 1)

\* _get_token_from: path.split("/")[-2]; defined when there are two segments
HasToken(path) == Len(Split(path)) >= 2

GetTokenFrom(path) == LET parts == Split(path) IN parts[Len(parts) - 1]

\* the value _replace_token_from stores, from the url it loaded
ReplaceToken(loaded, prev_token, current_token) ==
    Replace(loaded, prev_token, current_token)

\* the comparison with > in place of >=
InRefreshWindowStrict(expire, t) == t > expire - REFRESH_BEFORE

\* _should_refresh, second operand: time.time() >= self._expire - _REFRESH_BEFORE
InRefreshWindow(expire, t) == t >= expire - REFRESH_BEFORE

\* ------------------------------------------------------------------------
\* JSON documents: tagged values; an object is a record of tagged values
\* ------------------------------------------------------------------------

JNull == [t |-> "null"]
JInt(n) == [t |-> "int", i |-> n]
JBool(b) == [t |-> "bool", b |-> b]
JStr(s) == [t |-> "str", s |-> s]
\* a string whose text is itself a JSON document (livePlaybackJson)
JEnc(doc) == [t |-> "str", s |-> "<json>", doc |-> doc]
JList(l) == [t |-> "list", l |-> l]
JObj(o) == [t |-> "obj", o |-> o]
\* a response body that is not JSON
NotJson == [t |-> "notjson"]

\* isinstance(v, str), isinstance(v, int) (a bool is an int in Python),
\* isinstance(v, bool), v is None, isinstance(v, dict)
IsStr(v) == v.t = "str"
IsInt(v) == v.t \in {"int", "bool"}
IsBool(v) == v.t = "bool"
IsNull(v) == v.t = "null"
IsObj(v) == v.t = "obj"
Has(v, k) == IsObj(v) /\ k \in DOMAIN v.o

\* the literal schema 200: value == 200
Is200(v) == v.t = "int" /\ v.i = 200

\* validate.any(str, None)
IsStrOrNull(v) == IsStr(v) \/ IsNull(v)

\* validate.parse_json() applied to a string value
ParsesAsJson(v) == IsStr(v) /\ "doc" \in DOMAIN v

\* validate.url(): a string that is a URL
ValidUrls ==
    {"https://x/hls.m3u8", "https://x/hls2.m3u8", "https://x/llhls.m3u8",
     "https://x/dash.mpd"}
IsUrl(v) == IsStr(v) /\ v.s \in ValidUrls

\* ------------------------------------------------------------------------
\* ChzzkAPI
\* ------------------------------------------------------------------------

\* the (datatype, data) pair an API call returns, or the PluginError it
\* raises when no alternative of validate.any matches
Outcome(datatype, message, none, data) ==
    [datatype |-> datatype, message |-> message, none |-> none, data |-> data]

SchemaMismatch == Outcome("PluginError", "", TRUE, <<>>)

\* first alternative: {"code": int, "message": str}
ErrorShape(v) ==
    /\ Has(v, "code") /\ IsInt(v.o.code)
    /\ Has(v, "message") /\ IsStr(v.o.message)

\* second alternative: {"code": 200, "content": None}
EmptyShape(v) ==
    /\ Has(v, "code") /\ Is200(v.o.code)
    /\ Has(v, "content") /\ IsNull(v.o.content)

\* third alternative, before the endpoint's schemas: {"code": 200, "content": dict}
DataShape(v) ==
    /\ Has(v, "code") /\ Is200(v.o.code)
    /\ Has(v, "content") /\ IsObj(v.o.content)

\* one element of "media": {"mediaId": str, "protocol": str, "path": url}
MediaOk(m) ==
    /\ Has(m, "mediaId") /\ IsStr(m.o.mediaId)
    /\ Has(m, "protocol") /\ IsStr(m.o.protocol)
    /\ Has(m, "path") /\ IsUrl(m.o.path)

\* union_get("mediaId", "protocol", "path")
MediaTuple(m) == <<m.o.mediaId.s, m.o.protocol.s, m.o.path.s>>

\* "livePlaybackJson": none_or_all(str, parse_json(), {"media": [...]}, get("media"))
PlaybackOk(v) ==
    \/ IsNull(v)
    \/ /\ ParsesAsJson(v)
       /\ Has(v.doc, "media")
       /\ v.doc.o.media.t = "list"
       /\ \A i \in 1..Len(v.doc.o.media.l) : MediaOk(v.doc.o.media.l[i])

PlaybackMedia(v) ==
    IF IsNull(v) THEN JNull
    ELSE JList([i \in 1..Len(v.doc.o.media.l) |-> MediaTuple(v.doc.o.media.l[i])])

\* the field schema of get_live_detail
LiveContentOk(c) ==
    /\ Has(c, "status") /\ IsStr(c.o.status)
    /\ Has(c, "liveId") /\ IsInt(c.o.liveId)
    /\ Has(c, "liveTitle") /\ IsStrOrNull(c.o.liveTitle)
    /\ Has(c, "liveCategory") /\ IsStrOrNull(c.o.liveCategory)
    /\ Has(c, "adult") /\ IsBool(c.o.adult)
    /\ Has(c, "channel") /\ Has(c.o.channel, "channelName")
    /\ IsStr(c.o.channel.o.channelName)
    /\ Has(c, "livePlaybackJson") /\ PlaybackOk(c.o.livePlaybackJson)

\* union_get with liveTitle and liveCategory in each other's place
LiveContentDataSwapped(c) ==
    << PlaybackMedia(c.o.livePlaybackJson), c.o.status, c.o.liveId,
       c.o.channel.o.channelName, c.o.liveTitle, c.o.liveCategory, c.o.adult >>

\* union_get("livePlaybackJson", "status", "liveId", "channel",
\*           "liveCategory", "liveTitle", "adult")
LiveContentData(c) ==
    << PlaybackMedia(c.o.livePlaybackJson), c.o.status, c.o.liveId,
       c.o.channel.o.channelName, c.o.liveCategory, c.o.liveTitle, c.o.adult >>

\* validate.any(int, None)
IsIntOrNull(v) == IsInt(v) \/ IsNull(v)

\* validate.get(key) on a dict that may lack an optional key: None by default
GetOrNull(c, k) == IF k \in DOMAIN c.o THEN c.o[k] ELSE JNull

\* the field schema of get_videos
VideoContentOk(c) ==
    /\ Has(c, "inKey") /\ IsStrOrNull(c.o.inKey)
    /\ Has(c, "videoNo") /\ IsIntOrNull(c.o.videoNo)
    /\ Has(c, "videoId") /\ IsStrOrNull(c.o.videoId)
    /\ Has(c, "videoTitle") /\ IsStrOrNull(c.o.videoTitle)
    /\ Has(c, "videoCategory") /\ IsStrOrNull(c.o.videoCategory)
    /\ Has(c, "adult") /\ IsBool(c.o.adult)
    /\ Has(c, "channel") /\ Has(c.o.channel, "channelName")
    /\ IsStr(c.o.channel.o.channelName)

\* union_get("adult", "inKey", "videoId", "videoNo", "channel",
\*           "videoTitle", "videoCategory")
VideoContentData(c) ==
    << c.o.adult, c.o.inKey, c.o.videoId, c.o.videoNo,
       c.o.channel.o.channelName, c.o.videoTitle, c.o.videoCategory >>

\* the field schema of get_clips: inKey and videoId are optional keys
ClipContentOk(c) ==
    /\ IsObj(c)
    /\ "inKey" \in DOMAIN c.o => IsStrOrNull(c.o.inKey)
    /\ "videoId" \in DOMAIN c.o => IsStrOrNull(c.o.videoId)
    /\ Has(c, "contentId") /\ IsStr(c.o.contentId)
    /\ Has(c, "contentTitle") /\ IsStr(c.o.contentTitle)
    /\ Has(c, "adult") /\ IsBool(c.o.adult)
    /\ Has(c, "ownerChannel") /\ Has(c.o.ownerChannel, "channelName")
    /\ IsStr(c.o.ownerChannel.o.channelName)

\* union((get("adult"), get("inKey"), get("videoId"), get("contentId"),
\*        get("ownerChannel"), get("contentTitle"), transform(lambda _: None)))
ClipContentData(c) ==
    << c.o.adult, GetOrNull(c, "inKey"), GetOrNull(c, "videoId"), c.o.contentId,
       c.o.ownerChannel.o.channelName, c.o.contentTitle, JNull >>

\* the schemas an endpoint method passes to _query_api
ContentOk(endpoint, c) ==
    CASE endpoint = "live-detail" -> LiveContentOk(c)
      [] endpoint = "videos" -> VideoContentOk(c)
      [] endpoint = "clips" -> ClipContentOk(c)

ContentData(endpoint, c) ==
    CASE endpoint = "live-detail" -> LiveContentData(c)
      [] endpoint = "videos" -> VideoContentData(c)
      [] endpoint = "clips" -> ClipContentData(c)

\* a body that matches no alternative taken for an empty success
QueryApiLenient(body, endpoint) ==
    IF ErrorShape(body) THEN Outcome("error", body.o.message.s, TRUE, <<>>)
    ELSE IF DataShape(body) /\ ContentOk(endpoint, body.o.content)
         THEN Outcome("success", "", FALSE, ContentData(endpoint, body.o.content))
    ELSE Outcome("success", "", TRUE, <<>>)

\* the same alternatives tried with the empty-success shape first
QueryApiEmptyFirst(body, endpoint) ==
    IF EmptyShape(body) THEN Outcome("success", "", TRUE, <<>>)
    ELSE IF ErrorShape(body) THEN Outcome("error", body.o.message.s, TRUE, <<>>)
    ELSE IF DataShape(body) /\ ContentOk(endpoint, body.o.content)
         THEN Outcome("success", "", FALSE, ContentData(endpoint, body.o.content))
    ELSE SchemaMismatch

\* _query_api: validate.any tries the alternatives in order, first match wins
QueryApi(body, endpoint) ==
    IF ErrorShape(body) THEN Outcome("error", body.o.message.s, TRUE, <<>>)
    ELSE IF EmptyShape(body) THEN Outcome("success", "", TRUE, <<>>)
    ELSE IF DataShape(body) /\ ContentOk(endpoint, body.o.content)
         THEN Outcome("success", "", FALSE, ContentData(endpoint, body.o.content))
    ELSE SchemaMismatch

\* get_live_detail
GetLiveDetail(body) == QueryApi(body, "live-detail")

\* get_videos
GetVideos(body) == QueryApi(body, "videos")

\* get_clips
GetClips(body) == QueryApi(body, "clips")

\* the first descriptor with protocol "HLS" and id "HLS": its index, or 0
RECURSIVE FirstHls(_, _)
FirstHls(media, i) ==
    IF i > Len(media) THEN 0
    ELSE IF media[i][2] = "HLS" /\ media[i][1] = "HLS" THEN i
    ELSE FirstHls(media, i + 1)

\* ------------------------------------------------------------------------
\* Exceptions
\* ------------------------------------------------------------------------

\* status of an exception that carries no HTTP response (err.err.response is None)
NoResponse == -1

Exc(type, origin, msg, status) ==
    [type |-> type, origin |-> origin, msg |-> msg, status |-> status]

NoExc == Exc("none", "none", "", NoResponse)

\* ------------------------------------------------------------------------
\* Inputs
\* ------------------------------------------------------------------------

MaxReads == 2
MaxFetches == 1

Threads == {"playback", "worker"}

ClockValues == {999, 1000}

TokA == <<"a">>
TokB == <<"b">>
TokAB == <<"a", "b">>
\* exp=11800: the refresh window opens at 1000
TokExp1 == <<"e", "x", "p", "=", "1", "1", "8", "0", "0">>
\* exp=12800: the refresh window opens at 2000, after the last clock value
TokExp2 == <<"e", "x", "p", "=", "1", "2", "8", "0", "0">>

MkUrl(host, token, final) ==
    <<"h", ":", "/", "/">> \o host \o <<"/">> \o token \o <<"/">> \o final

\* the urls a stream is constructed with: expiry inside the token, expiry in
\* the query string, and no expiry with the token's text also being the host
InitUrls ==
    { MkUrl(<<"c">>, TokExp1, <<"f">>),
      MkUrl(<<"c">>, TokA, <<"f", "?">> \o TokExp1),
      MkUrl(<<"a">>, TokA, <<"f">>) }

\* urls with the expiry in the query string: the token's text occurs nowhere
\* else, or it is a digit that also occurs in the expiry
TokOne == <<"1">>

QueryExpiryUrls ==
    { MkUrl(<<"c">>, TokA, <<"f", "?">> \o TokExp1),
      MkUrl(<<"c">>, TokOne, <<"f", "?">> \o TokExp1) }

\* the uri of the first variant of a freshly fetched variant playlist
MediaUris == { MkUrl(<<"m">>, tok, <<"p">>) : tok \in {TokB, TokAB, TokExp2} }

HlsMedia ==
    JObj([mediaId |-> JStr("HLS"), protocol |-> JStr("HLS"),
          path |-> JStr("https://x/hls.m3u8")])
LlhlsMedia ==
    JObj([mediaId |-> JStr("LLHLS"), protocol |-> JStr("HLS"),
          path |-> JStr("https://x/llhls.m3u8")])
DashMedia ==
    JObj([mediaId |-> JStr("DASH"), protocol |-> JStr("DASH"),
          path |-> JStr("https://x/dash.mpd")])
\* a second descriptor with id "HLS" and protocol "HLS"
HlsSecondMedia ==
    JObj([mediaId |-> JStr("HLS"), protocol |-> JStr("HLS"),
          path |-> JStr("https://x/hls2.m3u8")])

Playback(list) == JEnc(JObj([media |-> JList(list)]))

LiveContent(status, playback) ==
    JObj([status |-> JStr(status), liveId |-> JInt(5), liveTitle |-> JStr("t"),
          liveCategory |-> JNull, adult |-> JBool(FALSE),
          channel |-> JObj([channelName |-> JStr("n")]),
          livePlaybackJson |-> playback])

Body200(content) == JObj([code |-> JInt(200), content |-> content])

\* the live-detail bodies a refresh may receive
RefreshBodies ==
    { JObj([code |-> JInt(4004), message |-> JStr("CHANNEL_NOT_FOUND")]),
      Body200(JNull),
      Body200(LiveContent("OPEN", Playback(<<LlhlsMedia, HlsMedia>>))),
      Body200(LiveContent("OPEN", Playback(<<DashMedia>>))),
      Body200(LiveContent("OPEN", Playback(<<>>))),
      Body200(LiveContent("OPEN", JNull)),
      Body200(LiveContent("CLOSE", Playback(<<HlsMedia>>))) }

\* what super()._fetch_playlist() does: it returns the playlist, or raises a
\* StreamError whose err is the transport error, with or without a response
FetchStatuses == {399, 400, 403, NoResponse}

FetchError(status) == Exc("StreamError", "fetch", "Unable to open URL", status)

\* ------------------------------------------------------------------------
\* State
\* ------------------------------------------------------------------------

VARIABLES
    url,        \* ChzzkHLSStream._url
    now,        \* time.time()
    pc,         \* where each thread is
    loc,        \* the local variables of each thread's current call
    result,     \* how each thread's last call ended
    ncalls,     \* the calls each thread has started
    initUrl,    \* the url the stream was constructed with
    apiBody,    \* the body an API call receives
    apiOutcome, \* what the API call produced
    apiPc,      \* where the resolution that makes the API call is
    apiEndpoint, \* the endpoint the resolution queries
    apiRequests, \* the requests the API client has issued
    plug,       \* the Chzzk plugin object and how its _get_streams ended
    af          \* the AfreecaTV plugin object and its _get_streams call

vars == <<url, now, pc, loc, result, ncalls, initUrl,
          apiBody, apiOutcome, apiPc, apiEndpoint, apiRequests, plug, af>>

streamVars == <<url, now, pc, loc, result, ncalls, initUrl>>
\* the variables of the plugins' resolutions
apiVars == <<apiBody, apiOutcome, apiPc, apiEndpoint, apiRequests, plug, af>>
\* the variables of the Chzzk plugin and its stream
chzzkVars == <<streamVars, apiBody, apiOutcome, apiPc, apiEndpoint, apiRequests, plug>>

\* AfreecaTV: a CHANNEL object after validation; None is the value of get()
\* on an optional key that is absent
None == "<None>"

NoChannel ==
    [RESULT |-> 0, BPWD |-> None, BNO |-> None, RMD |-> None,
     VIEWPRESET |-> [given |-> FALSE, items |-> <<>>]]

NoPage == [bno |-> FALSE, bjnick |-> FALSE, title |-> FALSE, bstart_time |-> "absent"]

\* the AfreecaTV plugin after __init__, with the options and the arguments of
\* the _get_streams call about to be made
Af0(authed, purge, credentials, url_bno, live_check_only) ==
    [ authed |-> authed,                \* self._authed
      purge |-> purge,                  \* the purge_credentials option
      credentials |-> credentials,      \* username and password both given
      url_bno |-> url_bno,              \* the url holds a broadcast number
      live_check_only |-> live_check_only,
      pc |-> "begin",                   \* begin, login, scrape, channel, preset, done
      is_live |-> FALSE,
      cookies_saved |-> FALSE,          \* save_cookies() was called
      cookies_cleared |-> FALSE,        \* clear_cookies() was called
      login_result |-> 0,               \* RESULT of the login response
      page |-> NoPage,                  \* what the page held, once scraped
      channel |-> NoChannel,            \* the answer of the channel API
      presets |-> <<>>,                 \* the items of VIEWPRESET still to do
      streams |-> {},                   \* the labels of the streams collected
      login_requests |-> 0,
      page_requests |-> 0,
      channel_requests |-> 0,
      key_requests |-> 0,               \* _get_hls_key
      assign_requests |-> 0,            \* _get_stream_info
      ret |-> "none",                   \* none, no_streams (None is returned),
                                        \* streams (the dict is), raised
      exc |-> "none" ]

\* the plugin before _get_streams: is_live unset, nothing returned
Plug0(live_check_only) ==
    [ live_check_only |-> live_check_only,
      is_live |-> FALSE,
      ret |-> "none",             \* none, no_streams, streams, raised
      exc |-> "none",             \* the type of the exception raised
      playlist_requests |-> 0,    \* variant playlists and manifests requested
      media_path |-> "" ]         \* the path handed to parse_variant_playlist

NoOutcome == Outcome("none", "", TRUE, <<>>)

Locals0 ==
    [ outcome |-> NoOutcome,      \* datatype, data of refresh_playlist
      media_uri |-> <<>>,
      prev_token |-> <<>>,
      current_token |-> <<>>,
      loaded |-> <<>>,            \* self._url as loaded for str.replace
      err |-> NoExc,              \* err of the except clause
      expire |-> NoExpire,        \* self._expire as compared with the time
      time |-> 0,                 \* time.time() of _should_refresh
      refreshes |-> 0,            \* refresh_playlist() calls of this call
      attempts |-> 0,             \* super()._fetch_playlist() calls of this call
      rstate |-> "none",          \* the refresh: none, running, returned, raised
      fetched |-> FALSE,          \* the refresh fetched a variant playlist
      stored |-> FALSE ]          \* the refresh assigned self._url

Result(kind, exc, value) == [kind |-> kind, exc |-> exc, value |-> value]

NoResult == Result("none", NoExc, <<>>)

\* the state after the stream has been constructed with one of the urls
InitStream(urls) ==
    /\ initUrl \in urls
    /\ url = initUrl
    /\ now = 999
    /\ pc = [t \in Threads |-> "idle"]
    /\ loc = [t \in Threads |-> Locals0]
    /\ result = [t \in Threads |-> NoResult]
    /\ ncalls = [t \in Threads |-> 0]
    /\ apiBody = NotJson
    /\ apiOutcome = NoOutcome
    /\ apiPc = "off"
    /\ apiEndpoint = "live-detail"
    /\ apiRequests = 0
    /\ plug = Plug0(FALSE)
    /\ af = Af0(FALSE, FALSE, FALSE, FALSE, FALSE)

Init == InitStream(InitUrls)

\* an exception raised while the except clause handles err: the one that
\* leaves the clause, as if err had been raised instead
PropagatedOriginal(exc, err) == IF err # NoExc THEN err ELSE exc

\* an exception raised by refresh_playlist() is caught by neither of its
\* callers, url and the except clause handling err (NoExc for url): it leaves
Propagated(exc, err) == exc

\* the call of thread t ends by raising exc
Raise(t, exc) ==
    /\ result' = [result EXCEPT ![t] = Result("raised", exc, <<>>)]
    /\ pc' = [pc EXCEPT ![t] = "done"]

\* time passes
Tick ==
    /\ \E c \in ClockValues : c > now /\ now' = c
    /\ UNCHANGED <<url, pc, loc, result, ncalls, initUrl, apiVars>>

\* ------------------------------------------------------------------------
\* ChzzkHLSStream.url, read by the playback thread
\* ------------------------------------------------------------------------

\* the read begins; _should_refresh evaluates "self._expire is not None"
UrlRead ==
    /\ pc["playback"] \in {"idle", "done"}
    /\ ncalls["playback"] < MaxReads
    /\ ncalls' = [ncalls EXCEPT !["playback"] = @ + 1]
    /\ result' = [result EXCEPT !["playback"] = NoResult]
    /\ loc' = [loc EXCEPT !["playback"] = Locals0]
    /\ pc' = [pc EXCEPT !["playback"] =
                 IF Expire(url) # NoExpire THEN "should_refresh" ELSE "url_return"]
    /\ UNCHANGED <<url, now, initUrl, apiVars>>

\* _should_refresh evaluates "time.time() >= self._expire - _REFRESH_BEFORE",
\* which reads self._url again; url then calls refresh_playlist() or not
UrlShouldRefresh ==
    /\ pc["playback"] = "should_refresh"
    /\ LET e == Expire(url) IN
       IF e = NoExpire
       THEN \* None - 10800
            /\ Raise("playback", Exc("TypeError", "should_refresh", "", NoResponse))
            /\ UNCHANGED loc
       ELSE /\ loc' = [loc EXCEPT !["playback"].expire = e,
                                  !["playback"].time = now,
                                  !["playback"].refreshes =
                                      IF InRefreshWindow(e, now) THEN 1 ELSE 0,
                                  !["playback"].rstate =
                                      IF InRefreshWindow(e, now) THEN "running" ELSE "none"]
            /\ pc' = [pc EXCEPT !["playback"] =
                         IF InRefreshWindow(e, now) THEN "refresh_api" ELSE "url_return"]
            /\ UNCHANGED result
    /\ UNCHANGED <<url, now, ncalls, initUrl, apiVars>>

\* return self._url
UrlReturn ==
    /\ pc["playback"] = "url_return"
    /\ result' = [result EXCEPT !["playback"] = Result("returned", NoExc, url)]
    /\ pc' = [pc EXCEPT !["playback"] = "done"]
    /\ UNCHANGED <<url, now, loc, ncalls, initUrl, apiVars>>

\* ------------------------------------------------------------------------
\* ChzzkHLSStream.refresh_playlist, run by either thread
\* ------------------------------------------------------------------------

\* refresh_playlist() returns to its caller: url goes on to "return
\* self._url", _fetch_playlist to the log.warning and "raise err"
AfterRefresh(t) == IF t = "playback" THEN "url_return" ELSE "reraise"

\* the checks without the one on the status
RefreshCheckNoStatus(o) ==
    IF o.datatype = "PluginError"
    THEN [act |-> "raise", exc |-> Exc("PluginError", "api", "", NoResponse)]
    ELSE IF o.datatype = "error"
    THEN [act |-> "raise", exc |-> Exc("StreamError", "api", o.message, NoResponse)]
    ELSE IF o.none
    THEN [act |-> "raise", exc |-> Exc("TypeError", "refresh", "", NoResponse)]
    ELSE IF IsNull(o.data[1])
    THEN [act |-> "raise",
          exc |-> Exc("StreamError", "refresh",
                      "Error occurred while refreshing the stream URL.", NoResponse)]
    ELSE IF FirstHls(o.data[1].l, 1) # 0
    THEN [act |-> "variant", exc |-> NoExc]
    ELSE [act |-> "return", exc |-> NoExc]

\* what refresh_playlist does with the (datatype, data) it got: the
\* exception it raises, "variant" when it goes on to fetch the variant
\* playlist of the HLS descriptor, "return" when the loop finds none
RefreshCheck(o) ==
    IF o.datatype = "PluginError"
    THEN [act |-> "raise", exc |-> Exc("PluginError", "api", "", NoResponse)]
    ELSE IF o.datatype = "error"
    THEN [act |-> "raise", exc |-> Exc("StreamError", "api", o.message, NoResponse)]
    ELSE IF o.none
    THEN \* media, status, *_ = None
         [act |-> "raise", exc |-> Exc("TypeError", "refresh", "", NoResponse)]
    ELSE IF o.data[2].s # "OPEN" \/ IsNull(o.data[1])
    THEN [act |-> "raise",
          exc |-> Exc("StreamError", "refresh",
                      "Error occurred while refreshing the stream URL.", NoResponse)]
    ELSE IF FirstHls(o.data[1].l, 1) # 0
    THEN [act |-> "variant", exc |-> NoExc]
    ELSE [act |-> "return", exc |-> NoExc]

\* get_live_detail and the checks on its result
RefreshApi(t) ==
    /\ pc[t] = "refresh_api"
    /\ \E body \in RefreshBodies :
          LET o == GetLiveDetail(body)
              c == RefreshCheck(o)
          IN  IF c.act = "raise"
              THEN /\ loc' = [loc EXCEPT ![t].outcome = o, ![t].rstate = "raised"]
                   /\ Raise(t, Propagated(c.exc, loc[t].err))
              ELSE /\ loc' = [loc EXCEPT ![t].outcome = o,
                                         ![t].rstate =
                                             IF c.act = "return" THEN "returned" ELSE @]
                   /\ pc' = [pc EXCEPT ![t] =
                                IF c.act = "return" THEN AfterRefresh(t)
                                ELSE "refresh_variant"]
                   /\ UNCHANGED result
    /\ UNCHANGED <<url, now, ncalls, initUrl, apiVars>>

\* the reference url assigned to self._url before the fetch fails
RefreshVariantStoreFirst(t) ==
    /\ pc[t] = "refresh_variant"
    /\ \E uri \in MediaUris : url' = uri
    /\ loc' = [loc EXCEPT ![t].rstate = "raised"]
    /\ Raise(t, Propagated(Exc("OSError", "variant", "", NoResponse), loc[t].err))
    /\ UNCHANGED <<now, ncalls, initUrl, apiVars>>

\* _get_media_uri: the variant playlist is fetched and parsed, and the uri of
\* its first playlist is taken; the fetch may fail
RefreshVariant(t) ==
    /\ pc[t] = "refresh_variant"
    /\ \/ /\ loc' = [loc EXCEPT ![t].rstate = "raised"]
          /\ Raise(t, Propagated(Exc("OSError", "variant", "", NoResponse), loc[t].err))
       \/ \E uri \in MediaUris :
             /\ loc' = [loc EXCEPT ![t].media_uri = uri, ![t].fetched = TRUE]
             /\ pc' = [pc EXCEPT ![t] = "replace_prev"]
             /\ UNCHANGED result
    /\ UNCHANGED <<url, now, ncalls, initUrl, apiVars>>

\* _replace_token_from: prev_token and current_token
ReplacePrev(t) ==
    /\ pc[t] = "replace_prev"
    /\ IF HasToken(url) /\ HasToken(loc[t].media_uri)
       THEN /\ loc' = [loc EXCEPT ![t].prev_token = GetTokenFrom(url),
                                  ![t].current_token = GetTokenFrom(loc[t].media_uri)]
            /\ pc' = [pc EXCEPT ![t] = "replace_load"]
            /\ UNCHANGED result
       ELSE /\ loc' = [loc EXCEPT ![t].rstate = "raised"]
            /\ Raise(t, Propagated(Exc("IndexError", "replace", "", NoResponse), loc[t].err))
    /\ UNCHANGED <<url, now, ncalls, initUrl, apiVars>>

\* _replace_token_from: self._url is loaded for self._url.replace(...)
ReplaceLoad(t) ==
    /\ pc[t] = "replace_load"
    /\ loc' = [loc EXCEPT ![t].loaded = url]
    /\ pc' = [pc EXCEPT ![t] = "replace_store"]
    /\ UNCHANGED <<url, now, result, ncalls, initUrl, apiVars>>

\* _replace_token_from: the result of replace is assigned to self._url, and
\* refresh_playlist returns
ReplaceStore(t) ==
    /\ pc[t] = "replace_store"
    /\ url' = ReplaceToken(loc[t].loaded, loc[t].prev_token, loc[t].current_token)
    /\ loc' = [loc EXCEPT ![t].stored = TRUE, ![t].rstate = "returned"]
    /\ pc' = [pc EXCEPT ![t] = AfterRefresh(t)]
    /\ UNCHANGED <<now, result, ncalls, initUrl, apiVars>>

\* ------------------------------------------------------------------------
\* ChzzkHLSStreamWorker._fetch_playlist, run by the worker thread
\* ------------------------------------------------------------------------

\* what the except clause does with err: "refresh", "raise" (raise err), or
\* "crash" when err.err.response is None and has no status_code
HandlerCheck(err) ==
    IF err.status = NoResponse THEN "crash"
    ELSE IF err.status >= 400 THEN "refresh"
    ELSE "raise"

\* super()._fetch_playlist() returns the playlist or raises err
FetchPlaylist ==
    /\ pc["worker"] \in {"idle", "done"}
    /\ ncalls["worker"] < MaxFetches
    /\ ncalls' = [ncalls EXCEPT !["worker"] = @ + 1]
    /\ \/ /\ loc' = [loc EXCEPT !["worker"] = [Locals0 EXCEPT !.attempts = 1]]
          /\ result' = [result EXCEPT !["worker"] = Result("returned", NoExc, <<>>)]
          /\ pc' = [pc EXCEPT !["worker"] = "done"]
       \/ \E status \in FetchStatuses :
             /\ loc' = [loc EXCEPT !["worker"] =
                           [Locals0 EXCEPT !.attempts = 1, !.err = FetchError(status)]]
             /\ result' = [result EXCEPT !["worker"] = NoResult]
             /\ pc' = [pc EXCEPT !["worker"] = "handler"]
    /\ UNCHANGED <<url, now, initUrl, apiVars>>

\* except StreamError as err: if err.err.response.status_code >= 400
FetchHandler ==
    /\ pc["worker"] = "handler"
    /\ LET h == HandlerCheck(loc["worker"].err) IN
       \/ /\ h = "crash"
          /\ Raise("worker", Exc("AttributeError", "handler", "", NoResponse))
          /\ UNCHANGED loc
       \/ /\ h = "refresh"
          /\ loc' = [loc EXCEPT !["worker"].refreshes = @ + 1,
                                !["worker"].rstate = "running"]
          /\ pc' = [pc EXCEPT !["worker"] = "refresh_api"]
          /\ UNCHANGED result
       \/ /\ h = "raise"
          /\ Raise("worker", loc["worker"].err)
          /\ UNCHANGED loc
    /\ UNCHANGED <<url, now, ncalls, initUrl, apiVars>>

\* a new exception in place of the one that was caught
ReraisedNew(err) == Exc("StreamError", "reraise", err.msg, err.status)

\* the exception that leaves _fetch_playlist once refresh_playlist() has returned
Reraised(err) == err

\* log.warning(...); raise err
FetchReraise ==
    /\ pc["worker"] = "reraise"
    /\ Raise("worker", Reraised(loc["worker"].err))
    /\ UNCHANGED <<url, now, loc, ncalls, initUrl, apiVars>>

Next ==
    \/ Tick
    \/ UrlRead
    \/ UrlShouldRefresh
    \/ UrlReturn
    \/ \E t \in Threads : RefreshApi(t)
    \/ \E t \in Threads : RefreshVariant(t)
    \/ \E t \in Threads : ReplacePrev(t)
    \/ \E t \in Threads : ReplaceLoad(t)
    \/ \E t \in Threads : ReplaceStore(t)
    \/ FetchPlaylist
    \/ FetchHandler
    \/ FetchReraise

Spec == Init /\ [][Next]_vars

\* the same stream, constructed with a url whose expiry is in the query string
InitQueryExpiry == InitStream(QueryExpiryUrls)

SpecQueryExpiry == InitQueryExpiry /\ [][Next]_vars

\* ------------------------------------------------------------------------
\* One API call on its own: a body is received and classified
\* ------------------------------------------------------------------------

Absent == [t |-> "absent"]

BodyKeys == {"code", "message", "content", "extra"}

\* the object with the given values under the keys whose value is not Absent
MkBody(code, message, content, extra) ==
    LET val(k) == CASE k = "code" -> code [] k = "message" -> message
                    [] k = "content" -> content [] k = "extra" -> extra
    IN  JObj([k \in {key \in BodyKeys : val(key).t # "absent"} |-> val(k)])

ApiCodes == {Absent, JInt(200), JInt(4004), JStr("200"), JNull}

ApiMessages == {Absent, JStr("CHANNEL_NOT_FOUND"), JStr(""), JInt(1), JNull}

\* a content that lacks "status", and one whose "liveId" is a string
ContentNoStatus ==
    JObj([liveId |-> JInt(5), liveTitle |-> JStr("t"), liveCategory |-> JNull,
          adult |-> JBool(FALSE), channel |-> JObj([channelName |-> JStr("n")]),
          livePlaybackJson |-> JNull])
ContentBadId ==
    JObj([status |-> JStr("OPEN"), liveId |-> JStr("5"), liveTitle |-> JStr("t"),
          liveCategory |-> JNull, adult |-> JBool(FALSE),
          channel |-> JObj([channelName |-> JStr("n")]),
          livePlaybackJson |-> JNull])

\* a video and a clip, with and without the playback key
VideoContent(inKey) ==
    JObj([inKey |-> inKey, videoNo |-> JInt(3), videoId |-> JStr("v"),
          videoTitle |-> JStr("t"), videoCategory |-> JNull, adult |-> JBool(TRUE),
          channel |-> JObj([channelName |-> JStr("n")])])
ClipContent ==
    JObj([contentId |-> JStr("k"), contentTitle |-> JStr("t"), adult |-> JBool(FALSE),
          videoId |-> JStr("v"), ownerChannel |-> JObj([channelName |-> JStr("n")])])

Endpoints == {"live-detail", "videos", "clips"}

ApiContents ==
    { Absent, JNull, JStr("x"),
      VideoContent(JStr("key")), VideoContent(JNull), ClipContent,
      LiveContent("OPEN", Playback(<<HlsMedia>>)),
      LiveContent("OPEN", Playback(<<DashMedia, HlsMedia>>)),
      LiveContent("OPEN", Playback(<<LlhlsMedia, HlsSecondMedia, HlsMedia>>)),
      LiveContent("OPEN", Playback(<<DashMedia>>)),
      LiveContent("CLOSE", Playback(<<HlsMedia>>)),
      LiveContent("OPEN", JNull),
      LiveContent("CLOSE", JNull),
      LiveContent("OPEN", JStr("not json")),
      ContentNoStatus, ContentBadId }

ApiBodies ==
    { MkBody(c, m, ct, x) : c \in ApiCodes, m \in ApiMessages,
                            ct \in ApiContents, x \in {Absent, JInt(7)} }
    \cup {NotJson, JNull}

InitApi ==
    /\ initUrl = MkUrl(<<"c">>, TokA, <<"f">>)
    /\ url = initUrl
    /\ now = 999
    /\ pc = [t \in Threads |-> "idle"]
    /\ loc = [t \in Threads |-> Locals0]
    /\ result = [t \in Threads |-> NoResult]
    /\ ncalls = [t \in Threads |-> 0]
    /\ apiBody \in ApiBodies
    /\ apiOutcome = NoOutcome
    /\ apiPc = "request"
    /\ apiEndpoint \in Endpoints
    /\ apiRequests = 0
    /\ \E lco \in BOOLEAN : plug = Plug0(lco)
    /\ af = Af0(FALSE, FALSE, FALSE, FALSE, FALSE)

\* get_live_detail, get_videos, get_clips: one request, whose response is
\* validated against the schema
ApiCall ==
    /\ apiPc = "request"
    /\ apiOutcome' = CASE apiEndpoint = "live-detail" -> GetLiveDetail(apiBody)
                       [] apiEndpoint = "videos" -> GetVideos(apiBody)
                       [] apiEndpoint = "clips" -> GetClips(apiBody)
    /\ apiRequests' = apiRequests + 1
    /\ apiPc' = "done"
    /\ UNCHANGED <<apiBody, apiEndpoint, plug, af, streamVars>>

\* the plugin with the fields a step changes
PlugEnd(ret, exc, is_live, requests, path) ==
    [plug EXCEPT !.ret = ret, !.exc = exc, !.is_live = is_live,
                 !.playlist_requests = @ + requests, !.media_path = path]

\* _get_live with is_live set before the status is looked at
GetLiveResultEager(o, live_check_only) ==
    IF o.datatype = "PluginError" THEN PlugEnd("raised", "PluginError", FALSE, 0, "")
    ELSE IF o.datatype = "error" THEN PlugEnd("no_streams", "none", FALSE, 0, "")
    ELSE IF o.none THEN PlugEnd("no_streams", "none", FALSE, 0, "")
    ELSE IF o.data[2].s # "OPEN" THEN PlugEnd("no_streams", "none", TRUE, 0, "")
    ELSE IF IsNull(o.data[1]) THEN PlugEnd("no_streams", "none", TRUE, 0, "")
    ELSE IF live_check_only THEN PlugEnd("no_streams", "none", TRUE, 0, "")
    ELSE LET i == FirstHls(o.data[1].l, 1)
         IN  IF i = 0 THEN PlugEnd("no_streams", "none", TRUE, 0, "")
             ELSE PlugEnd("streams", "none", TRUE, 1, o.data[1].l[i][3])

\* _get_live after get_live_detail: the checks in their order, and
\* parse_variant_playlist on the path of the first HLS descriptor
GetLiveResult(o, live_check_only) ==
    IF o.datatype = "PluginError" THEN PlugEnd("raised", "PluginError", FALSE, 0, "")
    ELSE IF o.datatype = "error" THEN PlugEnd("no_streams", "none", FALSE, 0, "")
    ELSE IF o.none THEN PlugEnd("no_streams", "none", FALSE, 0, "")
    ELSE IF o.data[2].s # "OPEN" THEN PlugEnd("no_streams", "none", FALSE, 0, "")
    ELSE IF IsNull(o.data[1]) THEN PlugEnd("no_streams", "none", FALSE, 0, "")
    ELSE IF live_check_only THEN PlugEnd("no_streams", "none", TRUE, 0, "")
    ELSE LET i == FirstHls(o.data[1].l, 1)
         IN  IF i = 0 THEN PlugEnd("no_streams", "none", TRUE, 0, "")
             ELSE PlugEnd("streams", "none", TRUE, 1, o.data[1].l[i][3])

\* _get_vod_playback: adult, in_key, vod_id, *metadata = data, then the
\* manifest request when both the key and the id are there
GetVodPlaybackResult(o) ==
    IF o.datatype = "PluginError" THEN PlugEnd("raised", "PluginError", FALSE, 0, "")
    ELSE IF o.datatype = "error" THEN PlugEnd("no_streams", "none", FALSE, 0, "")
    ELSE IF o.none
    THEN \* adult, in_key, vod_id, *metadata = None
         PlugEnd("raised", "TypeError", FALSE, 0, "")
    ELSE IF IsNull(o.data[2]) \/ IsNull(o.data[3])
    THEN PlugEnd("no_streams", "none", FALSE, 0, "")
    ELSE PlugEnd("streams", "none", FALSE, 1, "")

\* _get_live, from the result of get_live_detail on
GetLive ==
    /\ apiPc = "done"
    /\ apiEndpoint = "live-detail"
    /\ plug' = GetLiveResult(apiOutcome, plug.live_check_only)
    /\ apiPc' = "resolved"
    /\ UNCHANGED <<apiBody, apiOutcome, apiEndpoint, apiRequests, af, streamVars>>

\* _get_video and _get_clip, from the result of get_videos or get_clips on
GetVodPlayback ==
    /\ apiPc = "done"
    /\ apiEndpoint \in {"videos", "clips"}
    /\ plug' = GetVodPlaybackResult(apiOutcome)
    /\ apiPc' = "resolved"
    /\ UNCHANGED <<apiBody, apiOutcome, apiEndpoint, apiRequests, af, streamVars>>

NextApi == ApiCall \/ GetLive \/ GetVodPlayback

SpecApi == InitApi /\ [][NextApi]_vars

\* ------------------------------------------------------------------------
\* AfreecaTV._get_streams
\* ------------------------------------------------------------------------

CHANNEL_RESULT_OK == 1
CHANNEL_LOGIN_REQUIRED == -6

\* what the regular expressions find in the page: the broadcast number, the
\* nickname and the title are there or not; the start time is absent, a date
\* strptime accepts, or text the expression matches and strptime rejects
Pages ==
    [bno : BOOLEAN, bjnick : BOOLEAN, title : BOOLEAN,
     bstart_time : {"absent", "valid", "invalid"}]

\* the VIEWPRESET lists of a channel
Preset(label, name) == [label |-> label, name |-> name]
PresetLists ==
    { <<>>,
      <<Preset("Auto", "auto"), Preset("HD", "hd")>>,
      <<Preset("HD", "hd"), Preset("SD", "sd")>> }

\* the CHANNEL objects the channel API answers with
ChannelResponses ==
    [ RESULT : {CHANNEL_RESULT_OK, CHANNEL_LOGIN_REQUIRED, 0},
      BPWD : {"Y", "N"},
      BNO : {None, "", "123"},
      RMD : {"", "https://r"},
      VIEWPRESET : [given : {TRUE}, items : PresetLists]
                   \cup {[given |-> FALSE, items |-> <<>>]} ]

\* the RESULT values of a login response and of an HLS-key response
ResultValues == {CHANNEL_RESULT_OK, 0}

\* "not x" for a string or None
Falsy(x) == x = None \/ x = ""

\* the resolution ends: it returns no streams, returns streams or raises
AfEnd(a, ret, exc) == [a EXCEPT !.pc = "done", !.ret = ret, !.exc = exc]

\* lines 186-198: credentials are purged when asked for, and a login is
\* attempted when the session is not authenticated and both the username and
\* the password are given
AfBegin ==
    /\ af.pc = "begin"
    /\ LET authed == IF af.purge THEN FALSE ELSE af.authed
       IN  af' = [af EXCEPT !.authed = authed,
                            !.cookies_cleared = af.purge,
                            !.pc = IF ~authed /\ af.credentials
                                   THEN "login" ELSE "scrape"]
    /\ UNCHANGED chzzkVars

\* _login with the cookies saved whatever the response says
LoginResultAlways(a, r) ==
    [a EXCEPT !.login_requests = @ + 1, !.login_result = r, !.cookies_saved = TRUE]

\* _login: one POST; cookies are saved when RESULT is CHANNEL_RESULT_OK
LoginResult(a, r) ==
    [a EXCEPT !.login_requests = @ + 1,
              !.login_result = r,
              !.cookies_saved = (r = CHANNEL_RESULT_OK)]

\* the login is made; the resolution goes on whether it succeeded or not
AfLogin ==
    /\ af.pc = "login"
    /\ \E r \in ResultValues :
          af' = [LoginResult(af, r) EXCEPT !.pc = "scrape"]
    /\ UNCHANGED chzzkVars

\* the scraping with the early return of live_check_only left out
ScrapeResultNoEarlyReturn(a, page) ==
    IF a.url_bno THEN [a EXCEPT !.pc = "channel"]
    ELSE LET b == [a EXCEPT !.page_requests = @ + 1, !.page = page]
         IN  IF ~page.bno \/ ~page.bjnick \/ ~page.title
                \/ page.bstart_time = "absent"
             THEN AfEnd(b, "no_streams", "none")
             ELSE IF page.bstart_time = "invalid"
             THEN AfEnd(b, "raised", "ValueError")
             ELSE [b EXCEPT !.is_live = TRUE, !.pc = "channel"]

\* lines 200-232: without a broadcast number in the url the page is fetched
\* and searched, each expression that finds nothing ends the resolution, and
\* is_live is set after the fourth; then live_check_only ends the resolution
ScrapeResult(a, page) ==
    IF a.url_bno
    THEN IF a.live_check_only THEN AfEnd(a, "no_streams", "none")
         ELSE [a EXCEPT !.pc = "channel"]
    ELSE LET b == [a EXCEPT !.page_requests = @ + 1, !.page = page]
         IN  IF ~page.bno \/ ~page.bjnick \/ ~page.title
                \/ page.bstart_time = "absent"
             THEN AfEnd(b, "no_streams", "none")
             ELSE IF page.bstart_time = "invalid"
             THEN \* datetime.strptime
                  AfEnd(b, "raised", "ValueError")
             ELSE IF a.live_check_only
             THEN AfEnd([b EXCEPT !.is_live = TRUE], "no_streams", "none")
             ELSE [b EXCEPT !.is_live = TRUE, !.pc = "channel"]

AfScrape ==
    /\ af.pc = "scrape"
    /\ \E page \in Pages : af' = ScrapeResult(af, page)
    /\ UNCHANGED chzzkVars

\* the checks on the channel with only "login required" ending the resolution
ChannelCheckLoginOnly(ch) ==
    IF ch.RESULT = CHANNEL_LOGIN_REQUIRED THEN "login_required"
    ELSE "ok"

\* lines 242-250: what the answer of the channel API leads to
ChannelCheck(ch) ==
    IF ch.RESULT = CHANNEL_LOGIN_REQUIRED THEN "login_required"
    ELSE IF ch.RESULT # CHANNEL_RESULT_OK THEN "not_ok"
    ELSE IF Falsy(ch.BNO) \/ Falsy(ch.RMD) THEN "no_broadcast"
    ELSE "ok"

\* lines 240-258: the channel API is asked; when the channel is there is_live
\* is set and the loop over VIEWPRESET begins
AfChannel ==
    /\ af.pc = "channel"
    /\ \E ch \in ChannelResponses :
          LET b == [af EXCEPT !.channel_requests = @ + 1, !.channel = ch]
          IN  af' = IF ChannelCheck(ch) # "ok" THEN AfEnd(b, "no_streams", "none")
                    ELSE IF ~ch.VIEWPRESET.given
                    THEN \* for item in None
                         AfEnd([b EXCEPT !.is_live = TRUE], "raised", "TypeError")
                    ELSE [b EXCEPT !.is_live = TRUE,
                                   !.presets = ch.VIEWPRESET.items,
                                   !.pc = "preset"]
    /\ UNCHANGED chzzkVars

\* one turn of the loop, with _get_hls_stream: "auto" is skipped; the key is
\* asked for, and with RESULT CHANNEL_RESULT_OK the stream assignment, which
\* has a view_url or not
AfPreset ==
    /\ af.pc = "preset"
    /\ af.presets # <<>>
    /\ LET item == Head(af.presets)
           rest == [af EXCEPT !.presets = Tail(af.presets)]
       IN  IF item.name = "auto" THEN af' = rest
           ELSE \E r \in ResultValues, view_url \in BOOLEAN :
                   af' = IF r # CHANNEL_RESULT_OK
                         THEN [rest EXCEPT !.key_requests = @ + 1]
                         ELSE [rest EXCEPT !.key_requests = @ + 1,
                                           !.assign_requests = @ + 1,
                                           !.streams =
                                               IF view_url THEN @ \cup {item.label}
                                               ELSE @]
    /\ UNCHANGED chzzkVars

\* lines 264-268: after the loop, no stream of a password-protected channel
\* ends the resolution with nothing; otherwise the dict is returned, which
\* holds the streams collected and may be empty
AfReturn ==
    /\ af.pc = "preset"
    /\ af.presets = <<>>
    /\ af' = IF af.streams = {} /\ af.channel.BPWD = "Y"
             THEN AfEnd(af, "no_streams", "none")
             ELSE AfEnd(af, "streams", "none")
    /\ UNCHANGED chzzkVars

InitAfreeca ==
    /\ initUrl = MkUrl(<<"c">>, TokA, <<"f">>)
    /\ url = initUrl
    /\ now = 999
    /\ pc = [t \in Threads |-> "idle"]
    /\ loc = [t \in Threads |-> Locals0]
    /\ result = [t \in Threads |-> NoResult]
    /\ ncalls = [t \in Threads |-> 0]
    /\ apiBody = NotJson
    /\ apiOutcome = NoOutcome
    /\ apiPc = "off"
    /\ apiEndpoint = "live-detail"
    /\ apiRequests = 0
    /\ plug = Plug0(FALSE)
    /\ \E authed, purge, credentials, url_bno, lco \in BOOLEAN :
          af = Af0(authed, purge, credentials, url_bno, lco)

NextAfreeca == AfBegin \/ AfLogin \/ AfScrape \/ AfChannel \/ AfPreset \/ AfReturn

SpecAfreeca == InitAfreeca /\ [][NextAfreeca]_vars

\* ------------------------------------------------------------------------
\* Properties of _fetch_playlist
\* ------------------------------------------------------------------------

WorkerDone == pc["worker"] = "done" /\ loc["worker"].err # NoExc

\* C1: when the playlist fetch fails with an HTTP status >= 400 and the
\* refresh succeeds, refresh_playlist() has been invoked exactly once by the
\* time the failure leaves _fetch_playlist, the failure that leaves is the
\* original fetch error, and the fetch was attempted once; while the refresh
\* runs nothing has left _fetch_playlist yet
C1_RefreshOnceThenOriginal ==
    /\ (WorkerDone /\ loc["worker"].err.status >= 400
                   /\ loc["worker"].rstate = "returned")
          => /\ loc["worker"].refreshes = 1
             /\ loc["worker"].attempts = 1
             /\ result["worker"] =
                    Result("raised", FetchError(loc["worker"].err.status), <<>>)
    /\ (loc["worker"].rstate = "running" \/ pc["worker"] = "reraise")
          => result["worker"].kind = "none"

C1_Witness ==
    /\ WorkerDone
    /\ loc["worker"].err.status = 403
    /\ loc["worker"].rstate = "returned"
    /\ loc["worker"].stored
    /\ result["worker"].kind = "raised"

\* C2: when refresh_playlist() fails while a fetch failure with status >= 400
\* is handled, the refresh failure and not the fetch error leaves
\* _fetch_playlist, and the refresh was invoked once only
C2_RefreshFailurePropagates ==
    (WorkerDone /\ loc["worker"].err.status >= 400
                /\ loc["worker"].rstate = "raised")
       => /\ result["worker"].kind = "raised"
          /\ result["worker"].exc # loc["worker"].err
          /\ result["worker"].exc.origin \in {"api", "refresh", "variant", "replace"}
          /\ loc["worker"].refreshes = 1
          /\ loc["worker"].attempts = 1

C2_Witness ==
    /\ WorkerDone
    /\ loc["worker"].err.status = 403
    /\ loc["worker"].rstate = "raised"
    /\ result["worker"].exc.type = "StreamError"
    /\ result["worker"].exc.origin = "refresh"

\* C3: a fetch failure that is not an HTTP response with status >= 400 (a
\* status below 400, or no response at all) never invokes refresh_playlist()
\* and leaves _fetch_playlist unchanged
C3_OtherFailuresUnchanged ==
    (WorkerDone /\ (loc["worker"].err.status = NoResponse
                    \/ loc["worker"].err.status < 400))
       => /\ loc["worker"].refreshes = 0
          /\ result["worker"] = Result("raised", loc["worker"].err, <<>>)

\* ------------------------------------------------------------------------
\* Properties of url and _expire
\* ------------------------------------------------------------------------

\* the playback thread takes the step that leaves pc value p
PlaybackLeaves(p) == pc["playback"] = p /\ pc'["playback"] # p

\* C4: a read of url with exp=<epoch> in the url and now >= epoch - 10800
\* calls refresh_playlist() and, once that has returned, returns the url as
\* it then is; with now < epoch - 10800 the read calls no refresh and returns
\* the url unchanged
C4_ReadRefreshesInWindow ==
    [][ /\ (PlaybackLeaves("should_refresh") /\ Expire(url) # NoExpire)
           => IF now >= Expire(url) - 10800
              THEN pc'["playback"] = "refresh_api"
                   /\ loc'["playback"].refreshes = 1
              ELSE pc'["playback"] = "url_return"
                   /\ loc'["playback"].refreshes = 0
                   /\ url' = url
        /\ PlaybackLeaves("url_return")
           => /\ result'["playback"] = Result("returned", NoExc, url)
              /\ url' = url
              /\ loc["playback"].refreshes <= 1
              /\ loc["playback"].refreshes = 1
                    => loc["playback"].rstate = "returned" ]_vars

C4_Witness ==
    /\ pc["playback"] = "done"
    /\ result["playback"].kind = "returned"
    /\ loc["playback"].refreshes = 1
    /\ loc["playback"].stored
    /\ loc["playback"].time = loc["playback"].expire - 10800
    /\ result["playback"].value # initUrl

RECURSIVE Pow10(_)
Pow10(n) == IF n = 0 THEN 1 ELSE 10 * Pow10(n - 1)

\* exp= followed by a digit starts at position i of u
ExpAt(u, i) ==
    /\ i + 4 <= Len(u)
    /\ u[i] = "e" /\ u[i + 1] = "x" /\ u[i + 2] = "p" /\ u[i + 3] = "="
    /\ u[i + 4] \in Digits

\* n is the integer written after the first exp= of u
IsExpiryOf(u, n) ==
    \E i \in 1..Len(u) :
       /\ ExpAt(u, i)
       /\ \A j \in 1..(i - 1) : ~ExpAt(u, j)
       /\ \E last \in (i + 4)..Len(u) :
             /\ \A k \in (i + 4)..last : u[k] \in Digits
             /\ last = Len(u) \/ u[last + 1] \notin Digits
             /\ n = LET Sum[k \in (i + 3)..last] ==
                            IF k = i + 3 THEN 0
                            ELSE Sum[k - 1] + DigitVal(u[k]) * Pow10(last - k)
                    IN  Sum[last]

\* strings the extraction is also tried on: exp= without digits, a second
\* exp=, leading zeros, a longer parameter name ending in exp
ExpireSamples ==
    { <<"e", "x", "p", "=">>,
      <<"e", "x", "p", "=", "x", "&", "e", "x", "p", "=", "7", "7">>,
      <<"e", "x", "p", "=", "0", "1", "2", "&", "e", "x", "p", "=", "5">>,
      <<"t", "e", "x", "p", "=", "9", "0", "a">>,
      <<"e", "x", "p">> }

\* C5: the expiry extracted from a url is exactly the integer after exp=, and
\* absent when the url has no exp=<digits>; a read of url that finds no
\* expiry goes straight to the return, with no refresh
C5_ExpiryExtraction ==
    /\ [](\A u \in ExpireSamples \cup MediaUris \cup {url} :
             IF \E i \in 1..Len(u) : ExpAt(u, i)
             THEN IsExpiryOf(u, Expire(u))
             ELSE Expire(u) = NoExpire)
    /\ [][ ((PlaybackLeaves("idle") \/ PlaybackLeaves("done"))
             /\ ~(\E i \in 1..Len(url) : ExpAt(url, i)))
           => /\ pc'["playback"] = "url_return"
              /\ loc'["playback"].refreshes = 0 ]_vars
    /\ []((pc["playback"] \in {"url_return", "done"}
             /\ loc["playback"].expire = NoExpire)
           => loc["playback"].refreshes = 0)

C5_Witness ==
    /\ pc["playback"] = "done"
    /\ result["playback"].kind = "returned"
    /\ Expire(url) = NoExpire
    /\ loc["playback"].refreshes = 0
    /\ now = 1000

\* ------------------------------------------------------------------------
\* Properties of refresh_playlist and _replace_token_from
\* ------------------------------------------------------------------------

\* "/".join(parts)
RECURSIVE Join(_)
Join(parts) ==
    IF Len(parts) = 1 THEN parts[1]
    ELSE parts[1] \o <<"/">> \o Join(Tail(parts))

\* u with the segment before its final segment set to tok, nothing else changed
WithToken(u, tok) ==
    LET parts == Split(u) IN Join([parts EXCEPT ![Len(parts) - 1] = tok])

\* u and v have the same segments, but for the one before the final segment
SameExceptToken(u, v) ==
    LET a == Split(u)
        b == Split(v)
    IN  /\ Len(a) = Len(b)
        /\ \A i \in 1..Len(a) : i # Len(a) - 1 => a[i] = b[i]

\* the tokens a refresh can obtain
RefreshTokens == { GetTokenFrom(m) : m \in MediaUris }

\* C6: a successful refresh changes only the token segment of the url: every
\* other part is the same before and after the assignment, also when the old
\* token's text occurs elsewhere in the url
C6_OnlyTokenChanges ==
    [][ \A t \in Threads :
           (pc[t] = "replace_store" /\ pc'[t] # "replace_store")
              => SameExceptToken(url, url') ]_vars

\* C7: in every reachable state the segment before the final segment of the
\* url is the initial token or a token obtained by a refresh
C7_TokenWellFormed ==
    /\ HasToken(url)
    /\ GetTokenFrom(url) \in {GetTokenFrom(initUrl)} \cup RefreshTokens

\* the API outcome a thread's refresh got has status other than OPEN or no media
NotOpenOrNoMedia(o) ==
    /\ o.datatype = "success" /\ ~o.none
    /\ o.data[2].s # "OPEN" \/ o.data[1].t = "null"

TokenOccursOnce(u) ==
    Replace(u, GetTokenFrom(u), <<"#">>) = WithToken(u, <<"#">>)

\* C9: when both threads run refresh_playlist() on the stream, every value
\* of the url is the initial url or the initial url with its token segment
\* replaced by one new token (stated for initial urls whose token text
\* occurs nowhere else in the url)
C9_UrlAlwaysWhole ==
    (TokenOccursOnce(initUrl) /\ \A t \in Threads : loc[t].refreshes >= 1)
       => url \in {initUrl} \cup { WithToken(initUrl, tok) : tok \in RefreshTokens }

\* ------------------------------------------------------------------------
\* Properties of _query_api
\* ------------------------------------------------------------------------

\* C10: a body with an integer code and a string message is classified as
\* Error with exactly that message, whatever else it holds, also when it has
\* code 200 and a content that matches a success shape
C10_ErrorShapeFirst ==
    (/\ apiPc = "done"
     /\ apiBody.t = "obj"
     /\ "code" \in DOMAIN apiBody.o /\ apiBody.o.code.t = "int"
     /\ "message" \in DOMAIN apiBody.o /\ apiBody.o.message.t = "str")
       => /\ apiOutcome.datatype = "error"
          /\ apiOutcome.message = apiBody.o.message.s

C10_Witness ==
    /\ apiPc = "done"
    /\ apiBody = MkBody(JInt(200), JStr("CHANNEL_NOT_FOUND"),
                        LiveContent("OPEN", Playback(<<HlsMedia>>)), JInt(7))
    /\ apiOutcome.datatype = "error"
    /\ apiOutcome.message = "CHANNEL_NOT_FOUND"

\* ------------------------------------------------------------------------
\* Properties of the outcome tuples and of their callers
\* ------------------------------------------------------------------------

\* the body is an object with "code": 200 (the integer) and the given content test
Code200(body) == Has(body, "code") /\ Is200(body.o.code)

\* the body carries a string message next to its code
HasStrMessage(body) == Has(body, "message") /\ IsStr(body.o.message)

\* the payload, read off the content field by field in the order the endpoint
\* declares
DeclaredOrder(endpoint, c) ==
    CASE endpoint = "live-detail" ->
            /\ apiOutcome.data[1] = PlaybackMedia(c.o.livePlaybackJson)
            /\ apiOutcome.data[2] = c.o.status
            /\ apiOutcome.data[3] = c.o.liveId
            /\ apiOutcome.data[4] = c.o.channel.o.channelName
            /\ apiOutcome.data[5] = c.o.liveCategory
            /\ apiOutcome.data[6] = c.o.liveTitle
            /\ apiOutcome.data[7] = c.o.adult
      [] endpoint = "videos" ->
            /\ apiOutcome.data[1] = c.o.adult
            /\ apiOutcome.data[2] = c.o.inKey
            /\ apiOutcome.data[3] = c.o.videoId
            /\ apiOutcome.data[4] = c.o.videoNo
            /\ apiOutcome.data[5] = c.o.channel.o.channelName
            /\ apiOutcome.data[6] = c.o.videoTitle
            /\ apiOutcome.data[7] = c.o.videoCategory
      [] endpoint = "clips" ->
            /\ apiOutcome.data[1] = c.o.adult
            /\ apiOutcome.data[4] = c.o.contentId
            /\ apiOutcome.data[5] = c.o.ownerChannel.o.channelName
            /\ apiOutcome.data[6] = c.o.contentTitle
            /\ apiOutcome.data[7] = JNull

\* what C11 says of a classified body, given whether the body is one the
\* statement is about
EmptyAndDataSuccess(about) ==
    (apiPc # "request" /\ Code200(apiBody) /\ Has(apiBody, "content") /\ about) =>
        /\ IsNull(apiBody.o.content) =>
              apiOutcome.datatype = "success" /\ apiOutcome.none
        /\ (IsObj(apiBody.o.content) /\ ContentOk(apiEndpoint, apiBody.o.content)) =>
              /\ apiOutcome.datatype = "success" /\ ~apiOutcome.none
              /\ Len(apiOutcome.data) = 7
              /\ DeclaredOrder(apiEndpoint, apiBody.o.content)

\* C11 as stated: every body with code 200 and content null yields the empty
\* success, and every body with code 200 and a content that satisfies the
\* endpoint's field schema yields the data success, its tuple in the declared
\* order
C11_EmptyAndDataSuccess == EmptyAndDataSuccess(TRUE)

\* C11 amended: the same for every such body that has no string message (a
\* body with a code and a string message is an error whatever its content)
C11_EmptyAndDataSuccessNoMessage == EmptyAndDataSuccess(~HasStrMessage(apiBody))

\* a live-detail body with a media list was classified as a data success
C11_Witness ==
    /\ apiPc = "done"
    /\ apiEndpoint = "live-detail"
    /\ Code200(apiBody) /\ ~HasStrMessage(apiBody)
    /\ apiOutcome.datatype = "success" /\ ~apiOutcome.none
    /\ apiOutcome.data[1].t = "list"
    /\ apiOutcome.data[6] = JStr("t")

\* the body matches none of the three alternatives of the endpoint's schema
MatchesNoShape(body, endpoint) ==
    /\ ~ErrorShape(body)
    /\ ~EmptyShape(body)
    /\ ~(DataShape(body) /\ ContentOk(endpoint, body.o.content))

\* C12: a body that matches none of the three shapes yields no outcome: the
\* API call fails with the schema-mismatch error, the failure ends the
\* resolution, and no request beyond the one of the call is issued
C12_MismatchFailsOnce ==
    (apiPc # "request" /\ MatchesNoShape(apiBody, apiEndpoint)) =>
        /\ apiOutcome.datatype = "PluginError"
        /\ apiRequests = 1
        /\ plug.playlist_requests = 0
        /\ apiPc = "resolved" => (plug.ret = "raised" /\ plug.exc = "PluginError")

\* a body with code 200 whose content lacks a required field was rejected
C12_Witness ==
    /\ apiPc = "resolved"
    /\ apiEndpoint = "live-detail"
    /\ Code200(apiBody) /\ Has(apiBody, "content")
    /\ apiBody.o.content = ContentNoStatus
    /\ apiOutcome.datatype = "PluginError"
    /\ apiRequests = 1

\* C13: whichever of the three tags the API call produced, the resolution
\* that called it ends with streams, with no streams or with a stream error,
\* never with another failure
C13_CallersHandleAllTags ==
    (apiPc = "resolved" /\ apiOutcome.datatype \in {"error", "success"}) =>
        \/ plug.ret \in {"streams", "no_streams"}
        \/ plug.ret = "raised" /\ plug.exc = "StreamError"

\* ------------------------------------------------------------------------
\* Properties of refresh_playlist
\* ------------------------------------------------------------------------

\* the refresh of thread t ends in this step: it returns, or it raises
RefreshReturns(t) == loc[t].rstate = "running" /\ loc'[t].rstate = "returned"
RefreshRaises(t) == loc[t].rstate = "running" /\ loc'[t].rstate = "raised"

\* C14: a refresh never fails silently: when refresh_playlist returns without
\* raising it has resolved a reference url, and the token segment of the url
\* is the token segment of that reference url
C14_RefreshNeverSilent ==
    [][\A t \in Threads :
          RefreshReturns(t) =>
              /\ loc'[t].fetched
              /\ HasToken(url') /\ HasToken(loc'[t].media_uri)
              /\ GetTokenFrom(url') = GetTokenFrom(loc'[t].media_uri)]_vars

\* C16: once two refreshes that ran on the handle have both stored and
\* returned, the token segment of the url is the new token of one of them
C16_LastWriterWins ==
    (/\ TokenOccursOnce(initUrl)
     /\ \A t \in Threads : loc[t].rstate = "returned" /\ loc[t].stored) =>
        /\ HasToken(url)
        /\ \E t \in Threads : GetTokenFrom(url) = loc[t].current_token

\* C17: a refresh that raises has not assigned the url: the step on which it
\* raises leaves the url as it is, no assignment of that call came before,
\* and the url changes only on a step on which a refresh returns
C17_RaisingRefreshKeepsUrl ==
    [][/\ \A t \in Threads :
             RefreshRaises(t) => (url' = url /\ ~loc[t].stored /\ ~loc'[t].stored)
       /\ url' # url => \E t \in Threads : RefreshReturns(t)]_vars

\* a refresh raised because the variant playlist could not be fetched, after
\* a read in the refresh window, and the url is the one the stream began with
C17_Witness ==
    /\ pc["playback"] = "done"
    /\ loc["playback"].rstate = "raised"
    /\ result["playback"].exc.type = "OSError"
    /\ loc["worker"].rstate = "none"
    /\ ncalls["worker"] = 0
    /\ url = initUrl

\* C18: when exp= lies outside the token segment (the url the refresh works
\* on has an expiry and neither the old nor the new token holds one), a
\* refresh that returns leaves the expiry derived from the url unchanged; and
\* a read of url performs at most one refresh
C18_ExpiryOutsideTokenKept ==
    [][/\ \A t \in Threads :
             (/\ RefreshReturns(t) /\ loc'[t].stored
              /\ Expire(loc[t].loaded) # NoExpire
              /\ Expire(loc[t].prev_token) = NoExpire
              /\ Expire(loc[t].current_token) = NoExpire)
             => Expire(url') = Expire(loc[t].loaded)
       /\ loc'["playback"].refreshes <= 1]_vars

\* ------------------------------------------------------------------------
\* Properties of Chzzk._get_live
\* ------------------------------------------------------------------------

\* the outcome carries a payload whose status is "OPEN" and whose media is
\* not null
OpenWithMedia(o) ==
    /\ o.datatype = "success" /\ ~o.none
    /\ o.data[2] = JStr("OPEN")
    /\ ~IsNull(o.data[1])

\* C19: live resolution returns a stream only for a data success with status
\* "OPEN", media not null, live_check_only false and a descriptor with id
\* "HLS" and protocol "HLS", the first of which is used; is_live is set
\* exactly when the status is "OPEN" and media is not null; otherwise there
\* is no stream and no playlist request
C19_LiveResolution ==
    (apiPc = "resolved" /\ apiEndpoint = "live-detail") =>
        /\ plug.ret = "streams" =>
              /\ OpenWithMedia(apiOutcome)
              /\ ~plug.live_check_only
              /\ \E i \in 1..Len(apiOutcome.data[1].l) :
                    /\ apiOutcome.data[1].l[i][1] = "HLS"
                    /\ apiOutcome.data[1].l[i][2] = "HLS"
                    /\ \A j \in 1..(i - 1) :
                          ~(/\ apiOutcome.data[1].l[j][1] = "HLS"
                            /\ apiOutcome.data[1].l[j][2] = "HLS")
                    /\ plug.media_path = apiOutcome.data[1].l[i][3]
              /\ plug.playlist_requests = 1
        /\ plug.is_live <=> OpenWithMedia(apiOutcome)
        /\ ~OpenWithMedia(apiOutcome) =>
              plug.ret # "streams" /\ plug.playlist_requests = 0
        /\ plug.live_check_only => plug.playlist_requests = 0

\* an open broadcast whose second descriptor is the first HLS one was resolved
C19_Witness ==
    /\ apiPc = "resolved"
    /\ apiEndpoint = "live-detail"
    /\ OpenWithMedia(apiOutcome)
    /\ Len(apiOutcome.data[1].l) = 3
    /\ plug.ret = "streams"
    /\ plug.is_live
    /\ plug.media_path = "https://x/hls2.m3u8"

\* ------------------------------------------------------------------------
\* Properties of AfreecaTV._get_streams
\* ------------------------------------------------------------------------

\* C15: the resolution returns streams only when the channel API reported
\* RESULT 1 with non-empty BNO and RMD; when it reported -6 or another result
\* than 1 the resolution ends with no stream, and no HLS-key request and no
\* stream-assignment request is made
C15_StreamsOnlyWhenChannelOk ==
    /\ (af.ret = "streams" \/ af.streams # {}) =>
          /\ af.channel_requests = 1
          /\ af.channel.RESULT = 1
          /\ af.channel.BNO \notin {None, ""}
          /\ af.channel.RMD \notin {None, ""}
    /\ (af.channel_requests = 1 /\ af.channel.RESULT # 1) =>
          /\ af.pc = "done"
          /\ af.ret = "no_streams"
          /\ af.streams = {}
          /\ af.key_requests = 0
          /\ af.assign_requests = 0

\* the channel API reported "login required" and the resolution ended
C15_Witness ==
    /\ af.pc = "done"
    /\ af.channel_requests = 1
    /\ af.channel.RESULT = -6
    /\ af.channel.BNO = "123"
    /\ af.ret = "no_streams"

\* C20: with live_check_only the resolution ends straight after the scraping
\* step with no streams, the channel API, the HLS-key request and the
\* stream-assignment request are never made, and is_live is set only if the
\* broadcast number, the nickname, the title and the start time were found
C20_LiveCheckOnlyStopsAfterScrape ==
    af.live_check_only =>
        /\ af.pc \in {"begin", "login", "scrape", "done"}
        /\ af.ret # "streams" /\ af.streams = {}
        /\ af.channel_requests = 0
        /\ af.key_requests = 0
        /\ af.assign_requests = 0
        /\ (af.pc = "done" /\ af.ret # "no_streams") =>
              (af.ret = "raised" /\ af.exc = "ValueError"
               /\ af.page.bstart_time = "invalid")
        /\ af.is_live =>
              /\ af.page_requests = 1
              /\ af.page.bno /\ af.page.bjnick /\ af.page.title
              /\ af.page.bstart_time = "valid"

\* a live check found the four items on the page and ended
C20_Witness ==
    /\ af.live_check_only
    /\ af.pc = "done"
    /\ af.ret = "no_streams"
    /\ af.is_live
    /\ af.page_requests = 1
    /\ af.channel_requests = 0

\* the scraping step ended the resolution: a live check, or a page on which
\* one of the four items was not found or the start time was no date
EndedByScrape(a) ==
    \/ a.live_check_only
    \/ /\ a.page_requests = 1
       /\ ~(a.page.bno /\ a.page.bjnick /\ a.page.title
            /\ a.page.bstart_time = "valid")

\* C21: at most one login request is made, and only when the session is not
\* authenticated (self._authed is false, by the cookies or by the purge) and
\* both the username and the password are given; the cookies are saved
\* exactly when the login response has RESULT 1; and a rejected login does
\* not end the resolution, which goes on to the scraping step and from there
\* to the channel API
C21_LoginOnceAndCookies ==
    /\ af.login_requests <= 1
    /\ af.login_requests = 1 => (~af.authed /\ af.credentials)
    /\ af.cookies_saved <=> (af.login_requests = 1 /\ af.login_result = 1)
    /\ (af.login_requests = 1 /\ af.login_result # 1) =>
          /\ af.pc # "login"
          /\ (af.pc = "done" /\ af.channel_requests = 0) => EndedByScrape(af)

\* a login was rejected after a purge of cached credentials, no cookies were
\* saved, and the resolution asked the channel API
C21_Witness ==
    /\ af.purge /\ af.cookies_cleared
    /\ af.login_requests = 1
    /\ af.login_result = 0
    /\ ~af.cookies_saved
    /\ af.channel_requests = 1
    /\ af.pc = "done"

====
